---- MODULE Spec2Model ----
(***************************************************************************)
(* The resource graph assembled by AwsCdkDocdbStack (lib/aws-cdk-docdb-    *)
(* stack.ts), instantiated by bin/aws-cdk-docdb.ts.  The constructor is a  *)
(* straight-line program: one action per statement, in source order.  The  *)
(* state is the construct tree, the local handles bound so far and the     *)
(* properties recorded on each construct.                                  *)
(***************************************************************************)
EXTENDS Integers, Sequences, FiniteSets, TLC

VARIABLES
    pc,             \* the statement of the program that runs next
    processEnv,     \* CDK_DEFAULT_ACCOUNT / CDK_DEFAULT_REGION of the process
    stackEnv,       \* props.env handed to the Stack constructor
    nodes,          \* construct tree, in registration order: [id, scope, type]
    handles,        \* the constructor's local constants: name -> construct id
    vpcs,           \* id -> Vpc props
    securityGroups, \* id -> [vpc, rules]
    secrets,        \* id -> Secret props
    dbClusters,     \* id -> DatabaseCluster props
    ecsClusters,    \* id -> [vpc]
    taskDefs,       \* id -> [containers, rolePolicy]
    services,       \* id -> FargateService props
    loadBalancers,  \* id -> [vpc, internetFacing]
    listeners,      \* id -> [loadBalancer, port]
    targetGroups,   \* id -> [listener, port, targets]
    dependencies    \* explicit node.addDependency edges <<dependent, dependency>>

vars == <<pc, processEnv, stackEnv, nodes, handles, vpcs, securityGroups,
          secrets, dbClusters, ecsClusters, taskDefs, services, loadBalancers,
          listeners, targetGroups, dependencies>>

\* Bounds of the inputs the shell supplies.
MaxAccounts == 3
MaxRegions == 3

\* An unbound local constant.
UNSET == "undefined"

\* process.env.CDK_DEFAULT_ACCOUNT: absent (the empty tuple), or an account id.
AccountIds == {<<>>} \cup {<<"account", i>> : i \in 1..MaxAccounts}
\* process.env.CDK_DEFAULT_REGION: absent (the empty tuple), or a region id.
RegionIds == {<<>>} \cup {<<"region", i>> : i \in 1..MaxRegions}

\* The local constants of the constructor, each in its temporal dead zone
\* until its declaration has run.
HandleNames == {"vpc", "ddbSecurityGroup", "docDbCredentials", "docDbCluster",
                "ecsSecurityGroup", "ecsCluster", "ecsTaskDefinition",
                "payloadSecret", "ecsService", "loadBalancer",
                "loadBalancerListener"}

StackId == "AwsCdkDocdbStack"

Empty == [x \in {} |-> x]

\* new X(scope, id, ...): the construct registers itself under its scope.
Register(tree, scope, id, type) ==
    Append(tree, [id |-> id, scope |-> scope, type |-> type])

NodeIds(tree) == {tree[i].id : i \in 1..Len(tree)}

NodesOfType(tree, type) == {tree[i].id : i \in {j \in 1..Len(tree) : tree[j].type = type}}

\* const name = ...: binds the handle.
Bind(h, name, id) == [h EXCEPT ![name] = id]

----------------------------------------------------------------------------
\* JSON.stringify of a flat object, given as a sequence of <<key, value>>
\* pairs: the token sequence of the JSON text.
RECURSIVE StringifyMembers(_)
StringifyMembers(pairs) ==
    IF pairs = <<>> THEN <<>>
    ELSE LET m == <<<<"str", pairs[1][1]>>, <<"punct", ":">>, <<"str", pairs[1][2]>>>>
         IN IF Len(pairs) = 1 THEN m
            ELSE m \o <<<<"punct", ",">>>> \o StringifyMembers(Tail(pairs))

JSONstringify(pairs) ==
    <<<<"punct", "{">>>> \o StringifyMembers(pairs) \o <<<<"punct", "}">>>>

\* The keys of the object a JSON text denotes: every string token that is
\* followed by a colon.
JSONkeys(text) ==
    {text[i][2] : i \in {j \in 1..(Len(text) - 1) :
                           text[j][1] = "str" /\ text[j + 1] = <<"punct", ":">>}}

----------------------------------------------------------------------------
\* Secret.secretArn: a token naming the secret construct.
secretArn(secretId) == [arnOf |-> secretId]

\* Secret.secretValueFromJson(field): a SecretValue, i.e. a dynamic reference
\* to one JSON field of the secret.
secretValueFromJson(secretId, field) ==
    [kind |-> "SecretValue", secret |-> secretId, jsonField |-> field]

\* cdk.SecretValue.secretsManager(secretArn, {jsonField}).
secretsManager(arn, field) ==
    [kind |-> "SecretValue", secret |-> arn.arnOf, jsonField |-> field]

\* SecretValue.unsafeUnwrap(): the string token that stands for the dynamic
\* reference; the reference is kept, the wrapper is gone.
unsafeUnwrap(sv) ==
    [kind |-> "StringToken", secret |-> sv.secret, jsonField |-> sv.jsonField]

\* ecs.Secret.fromSecretsManager(secret, field).
fromSecretsManager(secretId, field) ==
    [kind |-> "EcsSecret", secret |-> secretId, jsonField |-> field]

\* A plain string written into the graph.
Literal(s) == [kind |-> "Literal", value |-> s]

----------------------------------------------------------------------------
\* subnetConfiguration of the Vpc.
VpcProps ==
    [subnetConfiguration |->
        << [cidrMask |-> 24, name |-> "public", subnetType |-> "PUBLIC"],
           [cidrMask |-> 24, name |-> "private", subnetType |-> "PRIVATE_ISOLATED"] >>]

\* vpc.selectSubnets({subnetGroupName}): a selection obtained from the Vpc
\* construct, holding the subnet groups of that name in configuration order.
selectSubnets(vpcId, vpcProps, groupName) ==
    [vpc |-> vpcId,
     subnets |-> SelectSeq(vpcProps.subnetConfiguration, LAMBDA s : s.name = groupName)]

----------------------------------------------------------------------------
\* Properties of each construct, as the constructor writes them.

SecurityGroupProps(h) == [vpc |-> h["vpc"], rules |-> <<>>]

DocDbCredentialsProps ==
    [secretStringTemplate |-> JSONstringify(<< <<"username", "awsdemo">> >>),
     generateStringKey |-> "password",
     passwordLength |-> 16,
     excludePunctuation |-> TRUE,
     excludeCharacters |-> "/¥'%:;{}"]

PayloadSecretProps ==
    [secretStringTemplate |-> JSONstringify(<<>>),
     generateStringKey |-> "payloadSecret",
     excludeCharacters |-> "\"@/\\ "]

\* masterUser of the DatabaseCluster.
MasterUserLiteral(h) ==
    [username |-> Literal("awsdemo"),
     password |-> secretsManager(secretArn(h["docDbCredentials"]), "password")]

MasterUser(h) ==
    [username |-> unsafeUnwrap(secretValueFromJson(h["docDbCredentials"], "username")),
     password |-> secretsManager(secretArn(h["docDbCredentials"]), "password")]

\* The subnet group the database cluster is placed in.
DocDbSubnetGroupName == "private"

DocDbClusterProps(h, vpcProps) ==
    [masterUser |-> MasterUser(h),
     vpc |-> h["vpc"],
     vpcSubnets |-> selectSubnets(h["vpc"], vpcProps, DocDbSubnetGroupName),
     instanceType |-> <<"T3", "MEDIUM">>,
     removalPolicy |-> "DESTROY",
     securityGroup |-> h["ddbSecurityGroup"]]

ContainerProps(h) ==
    [id |-> "AppContainer",
     image |-> "amazon/amazon-ecs-sample",
     memoryLimitMiB |-> 512,
     cpu |-> 256,
     secrets |-> [name \in {"DOCDB_USERNAME", "DOCDB_PASSWORD", "PAYLOAD_SECRET"} |->
                    CASE name = "DOCDB_USERNAME" ->
                           fromSecretsManager(h["docDbCredentials"], "username")
                      [] name = "DOCDB_PASSWORD" ->
                           fromSecretsManager(h["docDbCredentials"], "password")
                      [] name = "PAYLOAD_SECRET" ->
                           fromSecretsManager(h["payloadSecret"], "payloadSecret")],
     portMappings |-> << [containerPort |-> 80] >>]

\* The subnet group the service is placed in.
ServiceSubnetGroupName == "public"

ServiceProps(h, vpcProps) ==
    [cluster |-> h["ecsCluster"],
     taskDefinition |-> h["ecsTaskDefinition"],
     securityGroups |-> << h["ecsSecurityGroup"] >>,
     assignPublicIp |-> TRUE,
     vpcSubnets |-> selectSubnets(h["vpc"], vpcProps, ServiceSubnetGroupName)]

LoadBalancerProps(h) == [vpc |-> h["vpc"], internetFacing |-> TRUE]

ListenerProps(h) == [loadBalancer |-> h["loadBalancer"], port |-> 80]

TargetGroupProps(h) ==
    [listener |-> h["loadBalancerListener"], port |-> 80,
     targets |-> << h["ecsService"] >>]

\* The peer of the ingress rule added to the database security group.
IngressPeer(h) == [kind |-> "SecurityGroup", id |-> h["ecsSecurityGroup"]]

\* SecurityGroup.addIngressRule(peer, port, description) on one group.
addIngressRule(sgs, sg, peer, port, description) ==
    [sgs EXCEPT ![sg].rules =
        Append(@, [peer |-> peer, port |-> port, description |-> description])]

\* The statement added to the task role's policy.
PolicyStatement(h) ==
    [actions |-> {"secretsmanager:GetSecretValue"},
     resources |-> << secretArn(h["docDbCredentials"]) >>]

\* dependent.node.addDependency(dependency).
addDependency(deps, dependent, dependency) ==
    deps \cup {<<dependent, dependency>>}

\* The explicit dependency the constructor records: <<dependent, dependency>>.
ExplicitDependencySwapped(h) == <<h["docDbCluster"], h["ecsService"]>>

ExplicitDependency(h) == <<h["ecsService"], h["docDbCluster"]>>

----------------------------------------------------------------------------
\* bin/aws-cdk-docdb.ts: the App exists, the process environment is read, and
\* nothing has been constructed.
Init ==
    /\ pc = "super"
    /\ processEnv \in [account : AccountIds, region : RegionIds]
    /\ stackEnv = [account |-> <<>>, region |-> <<>>]
    /\ nodes = <<>>
    /\ handles = [n \in HandleNames |-> UNSET]
    /\ vpcs = Empty
    /\ securityGroups = Empty
    /\ secrets = Empty
    /\ dbClusters = Empty
    /\ ecsClusters = Empty
    /\ taskDefs = Empty
    /\ services = Empty
    /\ loadBalancers = Empty
    /\ listeners = Empty
    /\ targetGroups = Empty
    /\ dependencies = {}

\* super(scope, id, props): the stack registers under the App with props.env.
NewStack ==
    /\ pc = "super"
    /\ stackEnv' = [account |-> processEnv.account, region |-> processEnv.region]
    /\ nodes' = Register(nodes, "App", StackId, "Stack")
    /\ pc' = "vpc"
    /\ UNCHANGED <<processEnv, handles, vpcs, securityGroups, secrets, dbClusters,
                   ecsClusters, taskDefs, services, loadBalancers, listeners,
                   targetGroups, dependencies>>

NewVpc ==
    /\ pc = "vpc"
    /\ nodes' = Register(nodes, StackId, "VPC for DocumentDB", "Vpc")
    /\ vpcs' = vpcs @@ ("VPC for DocumentDB" :> VpcProps)
    /\ handles' = Bind(handles, "vpc", "VPC for DocumentDB")
    /\ pc' = "ddbSecurityGroup"
    /\ UNCHANGED <<processEnv, stackEnv, securityGroups, secrets, dbClusters,
                   ecsClusters, taskDefs, services, loadBalancers, listeners,
                   targetGroups, dependencies>>

NewDdbSecurityGroup ==
    /\ pc = "ddbSecurityGroup"
    /\ nodes' = Register(nodes, StackId, "DocumentDB Security Group", "SecurityGroup")
    /\ securityGroups' = securityGroups @@
           ("DocumentDB Security Group" :> SecurityGroupProps(handles))
    /\ handles' = Bind(handles, "ddbSecurityGroup", "DocumentDB Security Group")
    /\ pc' = "docDbCredentials"
    /\ UNCHANGED <<processEnv, stackEnv, vpcs, secrets, dbClusters, ecsClusters,
                   taskDefs, services, loadBalancers, listeners, targetGroups,
                   dependencies>>

NewDocDbCredentials ==
    /\ pc = "docDbCredentials"
    /\ nodes' = Register(nodes, StackId, "DocumentDBCredentials", "Secret")
    /\ secrets' = secrets @@ ("DocumentDBCredentials" :> DocDbCredentialsProps)
    /\ handles' = Bind(handles, "docDbCredentials", "DocumentDBCredentials")
    /\ pc' = "docDbCluster"
    /\ UNCHANGED <<processEnv, stackEnv, vpcs, securityGroups, dbClusters,
                   ecsClusters, taskDefs, services, loadBalancers, listeners,
                   targetGroups, dependencies>>

NewDocDbCluster ==
    /\ pc = "docDbCluster"
    /\ nodes' = Register(nodes, StackId, "DocDB", "DatabaseCluster")
    /\ dbClusters' = dbClusters @@
           ("DocDB" :> DocDbClusterProps(handles, vpcs[handles["vpc"]]))
    /\ handles' = Bind(handles, "docDbCluster", "DocDB")
    /\ pc' = "ecsSecurityGroup"
    /\ UNCHANGED <<processEnv, stackEnv, vpcs, securityGroups, secrets,
                   ecsClusters, taskDefs, services, loadBalancers, listeners,
                   targetGroups, dependencies>>

NewEcsSecurityGroup ==
    /\ pc = "ecsSecurityGroup"
    /\ nodes' = Register(nodes, StackId, "ECSSecurityGroup", "SecurityGroup")
    /\ securityGroups' = securityGroups @@
           ("ECSSecurityGroup" :> SecurityGroupProps(handles))
    /\ handles' = Bind(handles, "ecsSecurityGroup", "ECSSecurityGroup")
    /\ pc' = "ecsCluster"
    /\ UNCHANGED <<processEnv, stackEnv, vpcs, secrets, dbClusters, ecsClusters,
                   taskDefs, services, loadBalancers, listeners, targetGroups,
                   dependencies>>

NewEcsCluster ==
    /\ pc = "ecsCluster"
    /\ nodes' = Register(nodes, StackId, "ECSCluster", "Cluster")
    /\ ecsClusters' = ecsClusters @@ ("ECSCluster" :> [vpc |-> handles["vpc"]])
    /\ handles' = Bind(handles, "ecsCluster", "ECSCluster")
    /\ pc' = "ecsTaskDefinition"
    /\ UNCHANGED <<processEnv, stackEnv, vpcs, securityGroups, secrets,
                   dbClusters, taskDefs, services, loadBalancers, listeners,
                   targetGroups, dependencies>>

NewTaskDefinition ==
    /\ pc = "ecsTaskDefinition"
    /\ nodes' = Register(nodes, StackId, "TaskDefinition", "FargateTaskDefinition")
    /\ taskDefs' = taskDefs @@
           ("TaskDefinition" :> [containers |-> <<>>, rolePolicy |-> <<>>])
    /\ handles' = Bind(handles, "ecsTaskDefinition", "TaskDefinition")
    /\ pc' = "payloadSecret"
    /\ UNCHANGED <<processEnv, stackEnv, vpcs, securityGroups, secrets,
                   dbClusters, ecsClusters, services, loadBalancers, listeners,
                   targetGroups, dependencies>>

NewPayloadSecret ==
    /\ pc = "payloadSecret"
    /\ nodes' = Register(nodes, StackId, "PayloadSecret", "Secret")
    /\ secrets' = secrets @@ ("PayloadSecret" :> PayloadSecretProps)
    /\ handles' = Bind(handles, "payloadSecret", "PayloadSecret")
    /\ pc' = "addContainer"
    /\ UNCHANGED <<processEnv, stackEnv, vpcs, securityGroups, dbClusters,
                   ecsClusters, taskDefs, services, loadBalancers, listeners,
                   targetGroups, dependencies>>

\* ecsTaskDefinition.addContainer("AppContainer", {...}).
AddContainer ==
    /\ pc = "addContainer"
    /\ nodes' = Register(nodes, handles["ecsTaskDefinition"], "AppContainer",
                         "ContainerDefinition")
    /\ taskDefs' = [taskDefs EXCEPT ![handles["ecsTaskDefinition"]].containers =
                        Append(@, ContainerProps(handles))]
    /\ pc' = "ecsService"
    /\ UNCHANGED <<processEnv, stackEnv, handles, vpcs, securityGroups, secrets,
                   dbClusters, ecsClusters, services, loadBalancers, listeners,
                   targetGroups, dependencies>>

NewEcsService ==
    /\ pc = "ecsService"
    /\ nodes' = Register(nodes, StackId, "ECSService", "FargateService")
    /\ services' = services @@
           ("ECSService" :> ServiceProps(handles, vpcs[handles["vpc"]]))
    /\ handles' = Bind(handles, "ecsService", "ECSService")
    /\ pc' = "loadBalancer"
    /\ UNCHANGED <<processEnv, stackEnv, vpcs, securityGroups, secrets,
                   dbClusters, ecsClusters, taskDefs, loadBalancers, listeners,
                   targetGroups, dependencies>>

NewLoadBalancer ==
    /\ pc = "loadBalancer"
    /\ nodes' = Register(nodes, StackId, "LoadBalancer", "ApplicationLoadBalancer")
    /\ loadBalancers' = loadBalancers @@ ("LoadBalancer" :> LoadBalancerProps(handles))
    /\ handles' = Bind(handles, "loadBalancer", "LoadBalancer")
    /\ pc' = "loadBalancerListener"
    /\ UNCHANGED <<processEnv, stackEnv, vpcs, securityGroups, secrets,
                   dbClusters, ecsClusters, taskDefs, services, listeners,
                   targetGroups, dependencies>>

\* loadBalancer.addListener("Listener", {port: 80}).
AddListener ==
    /\ pc = "loadBalancerListener"
    /\ nodes' = Register(nodes, handles["loadBalancer"], "Listener",
                         "ApplicationListener")
    /\ listeners' = listeners @@ ("Listener" :> ListenerProps(handles))
    /\ handles' = Bind(handles, "loadBalancerListener", "Listener")
    /\ pc' = "addTargets"
    /\ UNCHANGED <<processEnv, stackEnv, vpcs, securityGroups, secrets,
                   dbClusters, ecsClusters, taskDefs, services, loadBalancers,
                   targetGroups, dependencies>>

\* loadBalancerListener.addTargets("ECS", {port: 80, targets: [ecsService]}).
AddTargets ==
    /\ pc = "addTargets"
    /\ nodes' = Register(nodes, handles["loadBalancerListener"], "ECS",
                         "ApplicationTargetGroup")
    /\ targetGroups' = targetGroups @@ ("ECS" :> TargetGroupProps(handles))
    /\ pc' = "addIngressRule"
    /\ UNCHANGED <<processEnv, stackEnv, handles, vpcs, securityGroups, secrets,
                   dbClusters, ecsClusters, taskDefs, services, loadBalancers,
                   listeners, dependencies>>

\* ddbSecurityGroup.addIngressRule(ecsSecurityGroup, Port.tcp(27017), "...").
AddIngressRule ==
    /\ pc = "addIngressRule"
    /\ securityGroups' = addIngressRule(securityGroups, handles["ddbSecurityGroup"],
                                        IngressPeer(handles), <<"tcp", 27017>>,
                                        "Allow MongoDB traffic from ECS")
    /\ pc' = "addToPrincipalPolicy"
    /\ UNCHANGED <<processEnv, stackEnv, nodes, handles, vpcs, secrets, dbClusters,
                   ecsClusters, taskDefs, services, loadBalancers, listeners,
                   targetGroups, dependencies>>

\* ecsTaskDefinition.taskRole.addToPrincipalPolicy(new iam.PolicyStatement(...)).
AddToPrincipalPolicy ==
    /\ pc = "addToPrincipalPolicy"
    /\ taskDefs' = [taskDefs EXCEPT ![handles["ecsTaskDefinition"]].rolePolicy =
                        Append(@, PolicyStatement(handles))]
    /\ pc' = "addDependency"
    /\ UNCHANGED <<processEnv, stackEnv, nodes, handles, vpcs, securityGroups,
                   secrets, dbClusters, ecsClusters, services, loadBalancers,
                   listeners, targetGroups, dependencies>>

\* ecsService.node.addDependency(docDbCluster).
AddDependency ==
    /\ pc = "addDependency"
    /\ dependencies' = addDependency(dependencies, ExplicitDependency(handles)[1],
                                     ExplicitDependency(handles)[2])
    /\ pc' = "done"
    /\ UNCHANGED <<processEnv, stackEnv, nodes, handles, vpcs, securityGroups,
                   secrets, dbClusters, ecsClusters, taskDefs, services,
                   loadBalancers, listeners, targetGroups>>

Next ==
    \/ NewStack
    \/ NewVpc
    \/ NewDdbSecurityGroup
    \/ NewDocDbCredentials
    \/ NewDocDbCluster
    \/ NewEcsSecurityGroup
    \/ NewEcsCluster
    \/ NewTaskDefinition
    \/ NewPayloadSecret
    \/ AddContainer
    \/ NewEcsService
    \/ NewLoadBalancer
    \/ AddListener
    \/ AddTargets
    \/ AddIngressRule
    \/ AddToPrincipalPolicy
    \/ AddDependency

Spec == Init /\ [][Next]_vars

----------------------------------------------------------------------------
\* The dependency graph derived from the reference fields of the constructs
\* and the explicit dependencies: <<a, b>> means a refers to b, so b must
\* exist before a.

SeqRange(q) == {q[i] : i \in 1..Len(q)}

SecretRefs(values) == {v.secret : v \in {w \in values : w.kind # "Literal"}}

ReferenceEdges ==
    UNION {
      {<<g, securityGroups[g].vpc>> : g \in DOMAIN securityGroups},
      UNION {{<<g, r.peer.id>> : r \in {x \in SeqRange(securityGroups[g].rules) :
                                          x.peer.kind = "SecurityGroup"}}
             : g \in DOMAIN securityGroups},
      UNION {{<<c, dbClusters[c].vpc>>, <<c, dbClusters[c].vpcSubnets.vpc>>,
              <<c, dbClusters[c].securityGroup>>}
             \cup {<<c, s>> : s \in SecretRefs({dbClusters[c].masterUser.username,
                                                 dbClusters[c].masterUser.password})}
             : c \in DOMAIN dbClusters},
      {<<c, ecsClusters[c].vpc>> : c \in DOMAIN ecsClusters},
      UNION {UNION {{<<t, s>> : s \in SecretRefs({k.secrets[n] : n \in DOMAIN k.secrets})}
                    : k \in SeqRange(taskDefs[t].containers)}
             : t \in DOMAIN taskDefs},
      UNION {UNION {{<<t, a.arnOf>> : a \in SeqRange(p.resources)}
                    : p \in SeqRange(taskDefs[t].rolePolicy)}
             : t \in DOMAIN taskDefs},
      UNION {{<<s, services[s].cluster>>, <<s, services[s].taskDefinition>>,
              <<s, services[s].vpcSubnets.vpc>>}
             \cup {<<s, g>> : g \in SeqRange(services[s].securityGroups)}
             : s \in DOMAIN services},
      {<<b, loadBalancers[b].vpc>> : b \in DOMAIN loadBalancers},
      {<<l, listeners[l].loadBalancer>> : l \in DOMAIN listeners},
      UNION {{<<g, targetGroups[g].listener>>}
             \cup {<<g, s>> : s \in SeqRange(targetGroups[g].targets)}
             : g \in DOMAIN targetGroups}
    }

Edges == ReferenceEdges \cup dependencies

\* The nodes reachable from the set S along the edges E.
RECURSIVE Reach(_, _)
Reach(S, E) ==
    LET T == S \cup {e[2] : e \in {x \in E : x[1] \in S}}
    IN IF T = S THEN S ELSE Reach(T, E)

Acyclic(E) == \A e \in E : e[1] \notin Reach({e[2]}, E)

\* A set of nodes the provisioning engine can have created at some moment:
\* with each node, everything the node depends on.
DependencyClosed(S, E) == \A e \in E : e[1] \in S => e[2] \in S

----------------------------------------------------------------------------
\* The fields a reference to the secret s can name: the keys of its template
\* and its generated key.
SecretFields(s) ==
    JSONkeys(secrets[s].secretStringTemplate) \cup {secrets[s].generateStringKey}

\* v is a reference to a field of a secret that is in the graph, not a value.
IsSecretReference(v, kinds) ==
    /\ v.kind \in kinds
    /\ DOMAIN v = {"kind", "secret", "jsonField"}
    /\ v.secret \in NodesOfType(nodes, "Secret")
    /\ v.secret \in DOMAIN secrets
    /\ v.jsonField \in SecretFields(v.secret)

\* C9: the user name and password of every database cluster and every secret
\* binding of every container are references to a field of a declared secret,
\* never a literal; a secret holds its template and its generation recipe
\* only, and the template gives no value to the generated key.
C9_NoLiteralSecretValue ==
    /\ \A c \in DOMAIN dbClusters :
          /\ IsSecretReference(dbClusters[c].masterUser.username,
                               {"SecretValue", "StringToken"})
          /\ IsSecretReference(dbClusters[c].masterUser.password,
                               {"SecretValue", "StringToken"})
    /\ \A t \in DOMAIN taskDefs :
          \A k \in SeqRange(taskDefs[t].containers) :
              \A n \in DOMAIN k.secrets : IsSecretReference(k.secrets[n], {"EcsSecret"})
    /\ \A s \in DOMAIN secrets :
          /\ DOMAIN secrets[s] \subseteq
                {"secretStringTemplate", "generateStringKey", "passwordLength",
                 "excludePunctuation", "excludeCharacters"}
          /\ secrets[s].generateStringKey \notin JSONkeys(secrets[s].secretStringTemplate)

C9_Witness ==
    /\ "DocDB" \in DOMAIN dbClusters
    /\ dbClusters["DocDB"].masterUser.username.jsonField = "username"
    /\ dbClusters["DocDB"].masterUser.password.jsonField = "password"
    /\ \E t \in DOMAIN taskDefs :
          \E k \in SeqRange(taskDefs[t].containers) :
              /\ DOMAIN k.secrets = {"DOCDB_USERNAME", "DOCDB_PASSWORD", "PAYLOAD_SECRET"}
              /\ k.secrets["PAYLOAD_SECRET"].secret = "PayloadSecret"
    /\ "username" \in JSONkeys(secrets["DocumentDBCredentials"].secretStringTemplate)

\* C10: once the constructor has finished, the graph is acyclic and every
\* set of created nodes that respects the edges and holds the ECS service
\* holds the DocumentDB cluster too.  The sets that respect the edges are
\* the prefixes of the creation orders consistent with the graph, so in each
\* such order the cluster is created before the service.
C10_ClusterCreatedBeforeService ==
    pc = "done" =>
        /\ Acyclic(Edges)
        /\ \A S \in SUBSET NodeIds(nodes) :
              (DependencyClosed(S, Edges) /\ "ECSService" \in S) => "DocDB" \in S

C10_Witness ==
    /\ pc = "done"
    /\ <<"ECSService", "DocDB">> \in dependencies
    /\ <<"ECSService", "DocDB">> \notin ReferenceEdges
    /\ {<<"DocDB", "DocumentDB Security Group">>,
        <<"DocumentDB Security Group", "ECSSecurityGroup">>,
        <<"ECSService", "ECSSecurityGroup">>,
        <<"TaskDefinition", "DocumentDBCredentials">>,
        <<"TaskDefinition", "PayloadSecret">>} \subseteq ReferenceEdges
    /\ \E S \in SUBSET NodeIds(nodes) :
          /\ DependencyClosed(S, Edges)
          /\ "DocDB" \in S
          /\ "ECSService" \notin S

====
